---- MODULE Spec2Model ----
(***************************************************************************)
(* Model of src/src/sqd_helper.hpp: the configuration-extraction and       *)
(* encoding pipeline of the SQD demo (bitstring_matrix_to_ci_strs,         *)
(* get_unique_ci_strs_with_HF, integer_to_bytes, ci_strs_to_bytes,         *)
(* write_bytestrings_to_file, write_alphadets_file).                       *)
(*                                                                         *)
(* A boost::dynamic_bitset row is a sequence of bits; bit i of the C++     *)
(* row is row[i + 1] here.  uint64_t values are TLA+ integers: inside the  *)
(* bounds below every value stays far under 2^64, so no operation of the   *)
(* code wraps.  log() is the logging sink: the model keeps the messages    *)
(* handed to it, which it prints when sqd_data.verbose is set.             *)
(***************************************************************************)
EXTENDS Integers, Sequences, FiniteSets, TLC

VARIABLES
    pc,                       \* position of the call under study
    sqd_data,                 \* the SQD field the pipeline's data depends on: with_hf
    norb,                     \* argument norb
    num_elec,                 \* argument num_elec
    batch,                    \* argument batch / bitstring_matrix
    maximum_numbers_of_ctrs,  \* argument maximum_numbers_of_ctrs
    can_open,                 \* environment: can the output file be opened
    ci_strs,                  \* write_alphadets_file: local ci_strs (a pair)
    merged,                   \* value returned by get_unique_ci_strs_with_HF
    unique_ci_strs,           \* local unique_ci_strs when it is serialized
    bytestrings,              \* local bytestrings
    logged,                   \* messages passed to log(), which prints them
                              \* when sqd_data.verbose is set
    cerr,                     \* messages printed to std::cerr
    files,                    \* file system: file name -> sequence of bytes
    ret,                      \* value returned to the caller
    ci_open,                  \* result of bitstring_matrix_to_ci_strs(batch, true)
    ci_closed,                \* result of bitstring_matrix_to_ci_strs(batch, false)
    n_in,                     \* argument n of integer_to_bytes
    strs_in,                  \* argument ci_strs of ci_strs_to_bytes
    bytes_out,                \* result of integer_to_bytes
    records_out               \* result of ci_strs_to_bytes

vars == <<pc, sqd_data, norb, num_elec, batch, maximum_numbers_of_ctrs, can_open,
          ci_strs, merged, unique_ci_strs, bytestrings, logged, cerr, files, ret,
          ci_open, ci_closed, n_in, strs_in, bytes_out, records_out>>

(***************************************************************************)
(* Bounds of the model.                                                    *)
(***************************************************************************)
\* sum over the rows of a batch of the row's sector width (row length / 2)
MaxCells == 3
\* the same sum for the batches given to bitstring_matrix_to_ci_strs on its own
MaxCellsCi == 4
\* largest num_elec
MaxElec == 2
\* largest maximum_numbers_of_ctrs
MaxCtrs == 2
\* largest norb given to integer_to_bytes / ci_strs_to_bytes on their own
MaxNorbBytes == 9
\* longest ci_strs vector given to ci_strs_to_bytes on its own
MaxStrs == 2

Bit == {0, 1}

Range(s) == {s[k] : k \in DOMAIN s}

Min(S) == CHOOSE m \in S : \A x \in S : m <= x

\* rows of 2 * k bits
Rows(k) == [1..(2 * k) -> Bit]

\* every batch whose rows' sector widths sum to at most c (rows of one batch
\* may differ in length: nothing in the code makes them equal)
RECURSIVE BatchesUpTo(_)
BatchesUpTo(c) ==
    {<<>>} \cup
    UNION {{<<r>> \o b : r \in Rows(k), b \in BatchesUpTo(c - k)} : k \in 1..c}

(***************************************************************************)
(* Containers.                                                             *)
(***************************************************************************)
\* std::set<uint64_t> is a set; copying it to a vector (begin..end) lists
\* its elements in ascending order
RECURSIVE SetToVector(_)
SetToVector(S) ==
    IF S = {} THEN <<>>
    ELSE LET m == Min(S) IN <<m>> \o SetToVector(S \ {m})

\* std::sort(ret.begin(), ret.end()), as an insertion sort
RECURSIVE SortInsert(_, _)
SortInsert(x, s) ==
    IF s = <<>> THEN <<x>>
    ELSE IF x <= Head(s) THEN <<x>> \o s
    ELSE <<Head(s)>> \o SortInsert(x, Tail(s))

RECURSIVE std_sort(_)
std_sort(v) == IF v = <<>> THEN <<>> ELSE SortInsert(Head(v), std_sort(Tail(v)))

\* std::vector::resize(n) for n <= size(): keeps the first n elements
resize(v, n) == SubSeq(v, 1, n)

(***************************************************************************)
(* bitstring_matrix_to_ci_strs                                             *)
(***************************************************************************)
pow2_times(i) == 2 * i

\* static_cast<uint64_t>(std::pow(2, i))
pow2(i) == 2 ^ i

\* one inner loop of bitstring_matrix_to_ci_strs over i = from .. norb_ - 1:
\* the sum of pow2(i) over the set bits row[i + offset]
RECURSIVE SectorSum(_, _, _, _)
SectorSum(row, offset, from, norb_) ==
    IF from >= norb_ THEN 0
    ELSE (IF row[from + offset + 1] = 1 THEN pow2(from) ELSE 0)
         + SectorSum(row, offset, from + 1, norb_)

Symmetrize_left_only(unique_ci_str_left, unique_ci_str_right, open_shell) ==
    IF ~open_shell
    THEN <<unique_ci_str_left \cup unique_ci_str_right, unique_ci_str_right>>
    ELSE <<unique_ci_str_left, unique_ci_str_right>>

\* the closed-shell union: <<unique_ci_str_left, unique_ci_str_right>> after
\* the if (!open_shell) block
Symmetrize(unique_ci_str_left, unique_ci_str_right, open_shell) ==
    IF ~open_shell
    THEN LET combined_set == unique_ci_str_left \cup unique_ci_str_right
         IN <<combined_set, combined_set>>
    ELSE <<unique_ci_str_left, unique_ci_str_right>>

\* Defined when bitstring_matrix is not empty and no row is shorter than
\* twice the norb of row 0 (see CiStrsOutcomes for the other inputs).
bitstring_matrix_to_ci_strs(bitstring_matrix, open_shell) ==
    LET num_configs == Len(bitstring_matrix)
        norb_ == Len(bitstring_matrix[1]) \div 2
        ci_str_left == [config \in 1..num_configs |->
                           SectorSum(bitstring_matrix[config], 0, 0, norb_)]
        ci_str_right == [config \in 1..num_configs |->
                           SectorSum(bitstring_matrix[config], norb_, 0, norb_)]
        unique == Symmetrize(Range(ci_str_left), Range(ci_str_right), open_shell)
        result_left == SetToVector(unique[1])
        result_right == SetToVector(unique[2])
    IN <<result_right, result_left>>

\* the batches on which every bit the function reads exists
WellDefined(bitstring_matrix) ==
    /\ bitstring_matrix # <<>>
    /\ \A c \in DOMAIN bitstring_matrix :
           Len(bitstring_matrix[c]) >= 2 * (Len(bitstring_matrix[1]) \div 2)

\* a row read past its end: the bits past the end are whatever the read yields
RowCompletions(row, width) ==
    IF Len(row) >= width THEN {row}
    ELSE {row \o [j \in 1..(width - Len(row)) |-> t[j]] :
             t \in [1..(width - Len(row)) -> Bit]}

RECURSIVE Completions(_, _)
Completions(bitstring_matrix, width) ==
    IF bitstring_matrix = <<>> THEN {<<>>}
    ELSE {<<r>> \o rest : r \in RowCompletions(Head(bitstring_matrix), width),
                          rest \in Completions(Tail(bitstring_matrix), width)}

\* What a call bitstring_matrix_to_ci_strs(bitstring_matrix, open_shell) can
\* do: [crashed |-> TRUE] or a returned value.  bitstring_matrix[0] of an
\* empty vector and row[i] past the end of a row are undefined: the call
\* aborts (boost's assertion, a fault), or goes on with no rows to loop
\* over, respectively with some bit for each missing position.
Returned(value) == [crashed |-> FALSE, value |-> value]

Crashed == [crashed |-> TRUE, value |-> <<<<>>, <<>>>>]

CiStrsOutcomes(bitstring_matrix, open_shell) ==
    IF bitstring_matrix = <<>> THEN {Crashed, Returned(<<<<>>, <<>>>>)}
    ELSE IF ~WellDefined(bitstring_matrix)
    THEN {Crashed} \cup
         {Returned(bitstring_matrix_to_ci_strs(m, open_shell)) :
             m \in Completions(bitstring_matrix, 2 * (Len(bitstring_matrix[1]) \div 2))}
    ELSE {Returned(bitstring_matrix_to_ci_strs(bitstring_matrix, open_shell))}

(***************************************************************************)
(* integer_to_bytes, ci_strs_to_bytes                                      *)
(***************************************************************************)
FillBytes_little_endian(result, i, n) ==
    [j \in 1..Len(result) |-> (n \div (256 ^ (j - 1))) % 256]

\* the loop of integer_to_bytes from index i down to 0:
\* result[i] = n & 0xFF; n >>= 8
RECURSIVE FillBytes(_, _, _)
FillBytes(result, i, n) ==
    IF i < 0 THEN result
    ELSE FillBytes([result EXCEPT ![i + 1] = n % 256], i - 1, n \div 256)

integer_to_bytes(n, norb_) ==
    LET num_bytes == (norb_ + 7) \div 8
        result == [j \in 1..num_bytes |-> 0]
    IN FillBytes(result, num_bytes - 1, n)

ci_strs_to_bytes(ci_strs_, norb_) ==
    [k \in 1..Len(ci_strs_) |-> integer_to_bytes(ci_strs_[k], norb_)]

(***************************************************************************)
(* get_unique_ci_strs_with_HF                                              *)
(***************************************************************************)
\* (1ULL << num_elec) - 1
HFReference(num_elec_) == (2 ^ num_elec_) - 1

InsertHF_never(with_hf, num_elec_) == {}

InsertHF_always(with_hf, num_elec_) == {HFReference(num_elec_)}

\* unique_set after: if (sqd_data.with_hf) unique_set.insert(...)
InsertHF(with_hf, num_elec_) ==
    IF with_hf THEN {HFReference(num_elec_)} ELSE {}

get_unique_ci_strs_with_HF(sqd_data_, left_ci_strs, right_ci_strs, num_elec_) ==
    LET unique_set == InsertHF(sqd_data_.with_hf, num_elec_)
                          \cup Range(left_ci_strs) \cup Range(right_ci_strs)
        ret_ == SetToVector(unique_set)
    IN std_sort(ret_)

(***************************************************************************)
(* write_bytestrings_to_file                                             *)
(***************************************************************************)
RECURSIVE Concat(_)
Concat(byte_strings) ==
    IF byte_strings = <<>> THEN <<>>
    ELSE Head(byte_strings) \o Concat(Tail(byte_strings))

\* the file system after write_bytestrings_to_file: the file is created or
\* replaced when it can be opened, and nothing changes when it cannot
write_bytestrings_to_file(fs, is_open, byte_strings, filename) ==
    IF ~is_open THEN fs
    ELSE {f \in fs : f[1] # filename} \cup {<<filename, Concat(byte_strings)>>}

\* std::cerr after write_bytestrings_to_file
write_bytestrings_to_file_cerr(err, is_open, filename) ==
    IF ~is_open THEN Append(err, <<"Error: Could not open file ", filename>>)
    ELSE err

(***************************************************************************)
(* write_alphadets_file                                                    *)
(***************************************************************************)
Truncate_no_resize(unique_ci_strs_, maximum) == unique_ci_strs_

\* unique_ci_strs after the if / else on its size
Truncate(unique_ci_strs_, maximum) ==
    IF Len(unique_ci_strs_) < maximum THEN unique_ci_strs_
    ELSE resize(unique_ci_strs_, maximum)

\* the message of the branch taken; in the else branch the size is read
\* after the resize
TruncateMessage(unique_ci_strs_, maximum) ==
    IF Len(unique_ci_strs_) < maximum
    THEN <<"number of unique ci_strs:", Len(unique_ci_strs_)>>
    ELSE LET truncated == Len(unique_ci_strs_) - maximum
             resized == resize(unique_ci_strs_, maximum)
         IN <<"number of unique ci_strs:", Len(resized), ", truncated:", truncated>>

\* "AlphaDets_" + sqd_data.run_id + "_" + std::to_string(i_recovery) + "_cpp.bin"
\* for the run_id and the i_recovery of the call
AlphadetsPath == "AlphaDets_<run_id>_<i_recovery>_cpp.bin"

\* One call write_alphadets_file(sqd_data, norb, num_elec, batch,
\* maximum_numbers_of_ctrs, i_recovery).  Every log(sqd_data, {...}) of the
\* call appends its message to logged.
write_alphadets_file ==
    /\ pc = "ready"
    /\ LET log1 == Append(logged, <<"number of items in a batch: ", Len(batch)>>)
           open_shell == FALSE
       IN \E o \in CiStrsOutcomes(batch, open_shell) :
            IF o.crashed
            THEN /\ pc' = "crashed"
                 /\ logged' = log1
                 /\ UNCHANGED <<ci_strs, merged, unique_ci_strs, bytestrings,
                                cerr, files, ret>>
            ELSE LET cs == o.value
                     log2 == Append(log1,
                                 <<"number of items in left ci_strs:", Len(cs[1])>>)
                     log3 == Append(log2,
                                 <<"number of items in right ci_strs:", Len(cs[2])>>)
                     u == get_unique_ci_strs_with_HF(sqd_data, cs[1], cs[2], num_elec)
                     t == Truncate(u, maximum_numbers_of_ctrs)
                     log4 == Append(log3, TruncateMessage(u, maximum_numbers_of_ctrs))
                     bs == ci_strs_to_bytes(t, norb)
                     alphadets_bin_file == AlphadetsPath
                 IN /\ pc' = "returned"
                    /\ ci_strs' = cs
                    /\ merged' = u
                    /\ unique_ci_strs' = t
                    /\ bytestrings' = bs
                    /\ logged' = log4
                    /\ cerr' = write_bytestrings_to_file_cerr(cerr, can_open,
                                                              alphadets_bin_file)
                    /\ files' = write_bytestrings_to_file(files, can_open, bs,
                                                          alphadets_bin_file)
                    /\ ret' = alphadets_bin_file
    /\ UNCHANGED <<sqd_data, norb, num_elec, batch, maximum_numbers_of_ctrs,
                   can_open, ci_open, ci_closed, n_in, strs_in, bytes_out,
                   records_out>>

\* the locals of a call that has not run, and the empty file system
NoCall ==
    /\ pc = "ready"
    /\ ci_strs = <<<<>>, <<>>>>
    /\ merged = <<>>
    /\ unique_ci_strs = <<>>
    /\ bytestrings = <<>>
    /\ logged = <<>>
    /\ cerr = <<>>
    /\ files = {}
    /\ ret = ""
    /\ ci_open = <<>>
    /\ ci_closed = <<>>
    /\ bytes_out = <<>>
    /\ records_out = <<>>

\* write_alphadets_file is about to be called on any arguments within the
\* bounds, with or without the reference, in a directory where the output
\* file can or cannot be opened; no file has been written
Init ==
    /\ NoCall
    /\ sqd_data \in [with_hf : BOOLEAN]
    /\ norb \in 1..MaxCells
    /\ num_elec \in 0..MaxElec
    /\ batch \in BatchesUpTo(MaxCells)
    /\ maximum_numbers_of_ctrs \in 0..MaxCtrs
    /\ can_open \in BOOLEAN
    /\ n_in = 0
    /\ strs_in = <<>>

Next == write_alphadets_file

Spec == Init /\ [][Next]_vars

(***************************************************************************)
(* bitstring_matrix_to_ci_strs on its own: both values of open_shell on    *)
(* one batch that meets the function's preconditions.  A result is kept    *)
(* as <<value>>; <<>> stands for "not called yet".                         *)
(***************************************************************************)
CallOpenShell ==
    /\ ci_open = <<>>
    /\ ci_open' = <<bitstring_matrix_to_ci_strs(batch, TRUE)>>
    /\ UNCHANGED <<pc, sqd_data, norb, num_elec, batch, maximum_numbers_of_ctrs,
                   can_open, ci_strs, merged, unique_ci_strs, bytestrings, logged,
                   cerr, files, ret, ci_closed, n_in, strs_in, bytes_out,
                   records_out>>

CallClosedShell ==
    /\ ci_closed = <<>>
    /\ ci_closed' = <<bitstring_matrix_to_ci_strs(batch, FALSE)>>
    /\ UNCHANGED <<pc, sqd_data, norb, num_elec, batch, maximum_numbers_of_ctrs,
                   can_open, ci_strs, merged, unique_ci_strs, bytestrings, logged,
                   cerr, files, ret, ci_open, n_in, strs_in, bytes_out,
                   records_out>>

InitCi ==
    /\ NoCall
    /\ sqd_data = [with_hf |-> TRUE]
    /\ batch \in {b \in BatchesUpTo(MaxCellsCi) : WellDefined(b)}
    /\ norb = Len(batch[1]) \div 2
    /\ num_elec = 0
    /\ maximum_numbers_of_ctrs = 0
    /\ can_open = TRUE
    /\ n_in = 0
    /\ strs_in = <<>>

NextCi == CallOpenShell \/ CallClosedShell

SpecCi == InitCi /\ [][NextCi]_vars

(***************************************************************************)
(* integer_to_bytes and ci_strs_to_bytes on their own.                     *)
(***************************************************************************)
RECURSIVE SeqsUpTo(_, _)
SeqsUpTo(S, len) ==
    IF len = 0 THEN {<<>>}
    ELSE SeqsUpTo(S, len - 1) \cup
         {Append(q, x) : q \in {p \in SeqsUpTo(S, len - 1) : Len(p) = len - 1},
                         x \in S}

CallIntegerToBytes ==
    /\ bytes_out = <<>>
    /\ bytes_out' = <<integer_to_bytes(n_in, norb)>>
    /\ UNCHANGED <<pc, sqd_data, norb, num_elec, batch, maximum_numbers_of_ctrs,
                   can_open, ci_strs, merged, unique_ci_strs, bytestrings, logged,
                   cerr, files, ret, ci_open, ci_closed, n_in, strs_in,
                   records_out>>

CallCiStrsToBytes ==
    /\ records_out = <<>>
    /\ records_out' = <<ci_strs_to_bytes(strs_in, norb)>>
    /\ UNCHANGED <<pc, sqd_data, norb, num_elec, batch, maximum_numbers_of_ctrs,
                   can_open, ci_strs, merged, unique_ci_strs, bytestrings, logged,
                   cerr, files, ret, ci_open, ci_closed, n_in, strs_in,
                   bytes_out>>

\* n below 2^norb; the vector holds n and its complement on norb bits
InitBytes ==
    /\ NoCall
    /\ sqd_data = [with_hf |-> TRUE]
    /\ batch = <<>>
    /\ norb \in 1..MaxNorbBytes
    /\ num_elec = 0
    /\ maximum_numbers_of_ctrs = 0
    /\ can_open = TRUE
    /\ n_in \in 0..((2 ^ norb) - 1)
    /\ strs_in \in SeqsUpTo({n_in, (2 ^ norb) - 1 - n_in}, MaxStrs)

NextBytes == CallIntegerToBytes \/ CallCiStrsToBytes

SpecBytes == InitBytes /\ [][NextBytes]_vars

(***************************************************************************)
(* Properties.                                                             *)
(***************************************************************************)
StrictlyAscending(v) == \A i, j \in DOMAIN v : i < j => v[i] < v[j]

\* the value of a record read as a big-endian number
RECURSIVE BigEndianValue(_)
BigEndianValue(bytes) ==
    IF bytes = <<>> THEN 0
    ELSE 256 * BigEndianValue(SubSeq(bytes, 1, Len(bytes) - 1)) + bytes[Len(bytes)]

\* ceil(w / 8)
CeilBytes(w) == CHOOSE k \in 0..w : 8 * k >= w /\ 8 * (k - 1) < w

\* bit i of the number v
BitOf(v, i) == (v \div (2 ^ i)) % 2

\* the reference and the CI strings of both sectors of the finished call
MergedSet ==
    (IF sqd_data.with_hf THEN {(2 ^ num_elec) - 1} ELSE {})
        \cup Range(ci_strs[1]) \cup Range(ci_strs[2])

\* an empty batch, rows of differing lengths, or a norb that is not half
\* the row length
PreconditionViolated ==
    \/ batch = <<>>
    \/ \E c \in DOMAIN batch : Len(batch[c]) # Len(batch[1])
    \/ norb # Len(batch[1]) \div 2

\* a finished call that met the preconditions and wrote its file
OrdinaryCall ==
    /\ pc = "returned"
    /\ ~PreconditionViolated
    /\ files = {<<ret, Concat(bytestrings)>>}

\* C1: the CI strings write_alphadets_file serializes are the first
\* min(n, maximum_numbers_of_ctrs) elements of the merged unique set (n its
\* size) in strictly ascending order: at most maximum_numbers_of_ctrs
\* records, no duplicates, every dropped value larger than every kept one.
C1_TruncationKeepsSmallest ==
    pc = "returned" =>
        LET n == Cardinality(MergedSet)
            kept == Range(unique_ci_strs)
        IN /\ Len(bytestrings) = Len(unique_ci_strs)
           /\ Len(unique_ci_strs) <= maximum_numbers_of_ctrs
           /\ Len(unique_ci_strs) =
                  (IF n < maximum_numbers_of_ctrs THEN n ELSE maximum_numbers_of_ctrs)
           /\ StrictlyAscending(unique_ci_strs)
           /\ kept \subseteq MergedSet
           /\ \A d \in MergedSet \ kept : \A r \in kept : d > r

\* C1 witness: a call whose merged set is larger than a positive budget, so
\* that some values are kept and some are dropped
C1_Witness ==
    /\ OrdinaryCall
    /\ maximum_numbers_of_ctrs >= 2
    /\ Cardinality(MergedSet) > maximum_numbers_of_ctrs
    /\ Len(bytestrings) = maximum_numbers_of_ctrs

\* C2: with open_shell = false both returned sequences are the same, and
\* they hold exactly the values of either sequence returned for the same
\* batch with open_shell = true.
C2_ClosedShellIsUnion ==
    (ci_closed # <<>> /\ ci_open # <<>>) =>
        LET c == ci_closed[1]
            o == ci_open[1]
        IN /\ c[1] = c[2]
           /\ StrictlyAscending(c[1])
           /\ Range(c[1]) = Range(o[1]) \cup Range(o[2])

\* C2 witness: both calls made on a batch of several rows whose two
\* sectors give different sets of values
C2_Witness ==
    /\ ci_closed # <<>>
    /\ ci_open # <<>>
    /\ Len(batch) >= 2
    /\ Range(ci_open[1][1]) \ Range(ci_open[1][2]) # {}
    /\ Range(ci_open[1][2]) \ Range(ci_open[1][1]) # {}

\* C3: integer_to_bytes(n, norb) with n < 2^norb is ceil(norb / 8) bytes
\* whose big-endian value is n, and ci_strs_to_bytes gives one such record
\* per CI string, in the order of the input.
C3_BigEndianRecords ==
    /\ bytes_out # <<>> =>
           /\ Len(bytes_out[1]) = CeilBytes(norb)
           /\ \A j \in DOMAIN bytes_out[1] : bytes_out[1][j] \in 0..255
           /\ BigEndianValue(bytes_out[1]) = n_in
    /\ records_out # <<>> =>
           /\ Len(records_out[1]) = Len(strs_in)
           /\ \A k \in DOMAIN strs_in :
                  /\ Len(records_out[1][k]) = CeilBytes(norb)
                  /\ BigEndianValue(records_out[1][k]) = strs_in[k]

\* C3 witness: a two-byte record with a non-zero high byte, and a vector of
\* two different CI strings
C3_Witness ==
    /\ bytes_out # <<>>
    /\ records_out # <<>>
    /\ Len(bytes_out[1]) = 2
    /\ bytes_out[1][1] > 0
    /\ bytes_out[1][2] > 0
    /\ Len(strs_in) = 2
    /\ strs_in[1] # strs_in[2]

\* C4: every record write_alphadets_file serializes has no bit set at a
\* position >= norb and decodes to the CI string it was made from (stated
\* for the calls that meet the preconditions on the batch and on norb; the
\* claim covers every call).
C4_RecordsFitNorb ==
    (pc = "returned" /\ ~PreconditionViolated) =>
        \A k \in DOMAIN bytestrings :
            /\ BigEndianValue(bytestrings[k]) < 2 ^ norb
            /\ BigEndianValue(bytestrings[k]) = unique_ci_strs[k]

\* C5: when the output file cannot be opened, the call does not return the
\* path of the artifact to its caller as it does after a write (stated for
\* the calls that meet the preconditions; the claim covers every call).
C5_OpenFailureSurfaces ==
    (pc = "returned" /\ ~PreconditionViolated /\ ~can_open) =>
        /\ files = {}
        /\ ret # AlphadetsPath

\* C6: in a call that violates a precondition no artifact file is opened or
\* written (stated for the violations on which the code's behaviour is
\* defined: a norb that is not half the row length, later rows longer than
\* row 0; the claim covers the undefined ones as well, and says besides
\* that the call fails towards its caller).
C6_PreconditionFailsHard ==
    (pc # "ready" /\ PreconditionViolated /\ WellDefined(batch)) => files = {}

\* C7: with with_hf the value 2^num_elec - 1 is in the vector
\* get_unique_ci_strs_with_HF returns, and its record is serialized whenever
\* fewer than maximum_numbers_of_ctrs elements of that vector are smaller.
C7_ReferenceIncluded ==
    (pc = "returned" /\ sqd_data.with_hf) =>
        LET hf == (2 ^ num_elec) - 1
            smaller == {k \in DOMAIN merged : merged[k] < hf}
        IN /\ \E k \in DOMAIN merged : merged[k] = hf
           /\ Cardinality(smaller) < maximum_numbers_of_ctrs =>
                  \E k \in DOMAIN unique_ci_strs :
                      /\ unique_ci_strs[k] = hf
                      /\ bytestrings[k] = integer_to_bytes(hf, norb)

\* C7 witness: the reference is no CI string of the batch, the budget cuts
\* the merged vector, and the reference is kept with a smaller value before it
C7_Witness ==
    /\ OrdinaryCall
    /\ sqd_data.with_hf
    /\ (2 ^ num_elec) - 1 \notin Range(ci_strs[1]) \cup Range(ci_strs[2])
    /\ Len(merged) > maximum_numbers_of_ctrs
    /\ \E k \in DOMAIN unique_ci_strs : k > 1 /\ unique_ci_strs[k] = (2 ^ num_elec) - 1

\* C8 as stated: without with_hf the vector get_unique_ci_strs_with_HF
\* returns does not hold 2^num_elec - 1.
C8_ReferenceAbsentWithoutHF ==
    (pc = "returned" /\ ~sqd_data.with_hf) =>
        (2 ^ num_elec) - 1 \notin Range(merged)

\* C8 amended: without with_hf the vector get_unique_ci_strs_with_HF returns
\* holds exactly the left and right CI strings of the batch, so it holds
\* 2^num_elec - 1 only if that value is one of them.
C8_ReferenceOnlyFromBatch ==
    (pc = "returned" /\ ~sqd_data.with_hf) =>
        /\ Range(merged) = Range(ci_strs[1]) \cup Range(ci_strs[2])
        /\ (2 ^ num_elec) - 1 \in Range(merged) <=>
               (2 ^ num_elec) - 1 \in Range(ci_strs[1]) \cup Range(ci_strs[2])

\* C8 witness: without with_hf, a batch one of whose sectors encodes to
\* 2^num_elec - 1
C8_Witness ==
    /\ OrdinaryCall
    /\ ~sqd_data.with_hf
    /\ batch # <<>>
    /\ (2 ^ num_elec) - 1 \in Range(merged)

\* the sectors of row c of the batch, as bit patterns
HighSector(c, w) == [i \in 0..(w - 1) |-> batch[c][w + i + 1]]

LowSector(c, w) == [i \in 0..(w - 1) |-> batch[c][i + 1]]

\* the numbers below 2^w whose bits are those of pattern
Encodings(pattern, w) ==
    {v \in 0..((2 ^ w) - 1) : \A i \in 0..(w - 1) : BitOf(v, i) = pattern[i]}

\* C9: with open_shell = true the first returned sequence lists, ascending
\* and without duplicates, the numbers whose bits are those of the high half
\* of a row, the second the same for the low half; each pattern has exactly
\* one such number, so each length is the number of distinct patterns.
C9_OpenShellSectors ==
    ci_open # <<>> =>
        LET w == Len(batch[1]) \div 2
            rows == DOMAIN batch
            first == ci_open[1][1]
            second == ci_open[1][2]
        IN /\ StrictlyAscending(first)
           /\ StrictlyAscending(second)
           /\ Range(first) = UNION {Encodings(HighSector(c, w), w) : c \in rows}
           /\ Range(second) = UNION {Encodings(LowSector(c, w), w) : c \in rows}
           /\ \A c \in rows : Cardinality(Encodings(HighSector(c, w), w)) = 1
           /\ \A c \in rows : Cardinality(Encodings(LowSector(c, w), w)) = 1
           /\ Len(first) = Cardinality({HighSector(c, w) : c \in rows})
           /\ Len(second) = Cardinality({LowSector(c, w) : c \in rows})

\* C9 witness: a batch with a repeated high half and two different low
\* halves, on sectors wider than one bit
C9_Witness ==
    /\ ci_open # <<>>
    /\ Len(batch) >= 2
    /\ Len(batch[1]) >= 4
    /\ Len(ci_open[1][1]) = 1
    /\ Len(ci_open[1][2]) = 2

\* C10: when the budget cuts the merged vector, the last message logged
\* reports its size before the cut and the number dropped, and the two
\* differ by the number of records serialized; otherwise nothing is dropped
\* and the full size is reported (stated for the calls that meet the
\* preconditions; the claim covers every call).
C10_LogReportsPreTruncationCount ==
    (pc = "returned" /\ ~PreconditionViolated) =>
        LET msg == logged[Len(logged)]
        IN IF Len(merged) > maximum_numbers_of_ctrs
           THEN /\ Len(msg) = 4
                /\ msg[2] = Len(merged)
                /\ msg[4] = Len(merged) - Len(bytestrings)
                /\ msg[2] - msg[4] = Len(bytestrings)
           ELSE /\ msg[2] = Len(merged)
                /\ Len(msg) = 4 => msg[4] = 0
                /\ Len(bytestrings) = Len(merged)

====
